---- MODULE Spec2Model ----
(***************************************************************************)
(* Workflow-DSL generation engine of OpenManus:                            *)
(*   app/tool/dify_dsl_generator/dsl_generator.py   (DifyDSLGenerator)     *)
(*   app/tool/dify_dsl_generator/intent_analyzer/analyzer.py               *)
(*                                                   (IntentAnalyzer)     *)
(*                                                                         *)
(* Python values are tagged records: [t |-> "None"], [t |-> "str", s],     *)
(* [t |-> "int", n], [t |-> "bool", b], [t |-> "list", items |-> <<...>>], *)
(* [t |-> "dict", map |-> function from key strings to values].           *)
(* Non-ASCII string literals of the source are written as ASCII stand-ins  *)
(* prefixed "ja:"; floats are written as strings ("0.7").                  *)
(***************************************************************************)
EXTENDS Integers, Sequences, FiniteSets, TLC

VARIABLES
    pc,        \* position of the execute coroutine: "idle", "awaiting", "done"
    args,      \* the arguments of the current execute call
    reply,     \* what the model client did: NoReply, a raise, or a reply text
    config,    \* what IntentAnalyzer.analyze returned to execute (or NoConfig)
    result,    \* the ToolResult execute returned (or NoResult)
    llm_calls, \* number of chat_completion invocations made by the current call
    tasks,     \* the execute coroutines running on one shared generator
    generator  \* the fields of the generator and of its IntentAnalyzer

vars == <<pc, args, reply, config, result, llm_calls, tasks, generator>>

----------------------------------------------------------------------------
(* Bounds of the model *)

\* longest explicit node_types sequence a caller passes
MaxNodeTypes == 2
\* longest explicit variables sequence a caller passes
MaxVariables == 1
\* longest run of prose around the JSON part of a model reply
MaxProse == 1
\* number of execute coroutines started on one shared generator
MaxTasks == 3

----------------------------------------------------------------------------
(* Python values *)

PyNone == [t |-> "None"]
PyStr(s) == [t |-> "str", s |-> s]
PyInt(n) == [t |-> "int", n |-> n]
PyBool(b) == [t |-> "bool", b |-> b]
PyList(s) == [t |-> "list", items |-> s]
PyDict(f) == [t |-> "dict", map |-> f]

EmptyDict == PyDict(<<>>)

\* Python truth value of a value (bool(x))
Truthy(x) ==
    CASE x.t = "None" -> FALSE
      [] x.t = "str"  -> x.s # ""
      [] x.t = "int"  -> x.n # 0
      [] x.t = "bool" -> x.b
      [] x.t = "list" -> Len(x.items) # 0
      [] x.t = "dict" -> DOMAIN x.map # {}

\* a or b
PyOr(a, b) == IF Truthy(a) THEN a ELSE b

\* d.get(key, default)
DictGet(d, key, default) == IF key \in DOMAIN d.map THEN d.map[key] ELSE default

\* all sequences over S of length at most n
SeqsUpTo(S, n) == UNION {[1..k -> S] : k \in 0..n}

----------------------------------------------------------------------------
(* Node Factory: DifyDSLGenerator._create_node and the per-kind builders *)

\* str.upper() on the kind tags the model uses
Upper(s) ==
    CASE s = "start" -> "START"
      [] s = "end" -> "END"
      [] s = "llm" -> "LLM"
      [] s = "knowledge-retrieval" -> "KNOWLEDGE-RETRIEVAL"
      [] s = "http-request" -> "HTTP-REQUEST"
      [] s = "code" -> "CODE"
      [] s = "template-transform" -> "TEMPLATE-TRANSFORM"
      [] s = "answer" -> "ANSWER"
      [] s = "if-else" -> "IF-ELSE"
      [] s = "iteration" -> "ITERATION"
      [] s = "custom" -> "CUSTOM"
      [] s = "" -> ""

\* the titles table of _create_node
titles ==
    [llm |-> [en |-> "LLM", ja |-> "ja:gengo-moderu"],
     knowledge_retrieval |-> [en |-> "KNOWLEDGE RETRIEVAL", ja |-> "ja:chishiki-kensaku"],
     http_request |-> [en |-> "HTTP REQUEST", ja |-> "ja:HTTP-rikuesuto"],
     code |-> [en |-> "CODE", ja |-> "ja:koodo"],
     template_transform |-> [en |-> "TEMPLATE TRANSFORM", ja |-> "ja:tenpureeto-henkan"],
     answer |-> [en |-> "ANSWER", ja |-> "ja:kaitou"],
     if_else |-> [en |-> "IF-ELSE", ja |-> "ja:jouken-bunki"],
     iteration |-> [en |-> "ITERATION", ja |-> "ja:kurikaeshi"]]

\* the key of the titles table for a kind tag ("" when the table has none)
TitleKey(node_type) ==
    CASE node_type = "llm" -> "llm"
      [] node_type = "knowledge-retrieval" -> "knowledge_retrieval"
      [] node_type = "http-request" -> "http_request"
      [] node_type = "code" -> "code"
      [] node_type = "template-transform" -> "template_transform"
      [] node_type = "answer" -> "answer"
      [] node_type = "if-else" -> "if_else"
      [] node_type = "iteration" -> "iteration"
      [] OTHER -> ""

\* titles.get(node_type, {}).get(language, node_type.upper())
NodeTitle(node_type, language) ==
    LET k == TitleKey(node_type) IN
    IF k # "" /\ language \in DOMAIN titles[k]
    THEN titles[k][language]
    ELSE Upper(node_type)

_create_llm_node(node_id, title) ==
    [id |-> node_id, position |-> PyNone,
     data |-> [title |-> title, type |-> "llm",
               model |-> [provider |-> "openai", name |-> "gpt-3.5-turbo", mode |-> "chat",
                          completion_params |-> [temperature |-> "0.7", top_p |-> 1,
                                                 presence_penalty |-> 0,
                                                 frequency_penalty |-> 0,
                                                 max_tokens |-> 1000]],
               prompt_template |-> <<[role |-> "user", text |-> "{{#sys.query#}}"]>>,
               memory |-> [role_prefix |-> PyNone,
                           window |-> [enabled |-> TRUE, max_messages |-> 10]],
               context |-> [enabled |-> FALSE, variable_selector |-> PyNone],
               vision |-> [enabled |-> FALSE, variable_selector |-> PyNone,
                           configs |-> PyNone]]]

_create_knowledge_retrieval_node(node_id, title) ==
    [id |-> node_id, position |-> PyNone,
     data |-> [title |-> title, type |-> "knowledge-retrieval",
               query_variable_selector |-> <<"sys", "query">>,
               dataset_ids |-> <<>>,
               retrieval_mode |-> "multiple",
               single_retrieval_config |-> PyNone,
               multiple_retrieval_config |-> [top_k |-> 3, score_threshold |-> "0.5",
                                              reranking_model |-> PyNone]]]

_create_http_request_node(node_id, title) ==
    [id |-> node_id, position |-> PyNone,
     data |-> [title |-> title, type |-> "http-request",
               method |-> "get", url |-> "https://api.example.com",
               authorization |-> [type |-> "none", config |-> EmptyDict],
               headers |-> "", params |-> "",
               body |-> [type |-> "none", data |-> ""]]]

_create_code_node(node_id, title) ==
    [id |-> node_id, position |-> PyNone,
     data |-> [title |-> title, type |-> "code",
               variables |-> <<>>,
               code_language |-> "python3",
               code |-> "def main():\n    return {'result': 'Hello, World!'}\n",
               outputs |-> [result |-> [type |-> "string"]]]]

_create_template_transform_node(node_id, title) ==
    [id |-> node_id, position |-> PyNone,
     data |-> [title |-> title, type |-> "template-transform",
               variables |-> <<[variable |-> "input", value_selector |-> <<"sys", "query">>]>>,
               template |-> "{{ input }}"]]

_create_answer_node(node_id, title) ==
    [id |-> node_id, position |-> PyNone,
     data |-> [title |-> title, type |-> "answer", answer |-> "{{#llm.text#}}"]]

_create_if_else_node(node_id, title) ==
    [id |-> node_id, position |-> PyNone,
     data |-> [title |-> title, type |-> "if-else",
               condition |-> [operator |-> "==",
                              left |-> [type |-> "variable",
                                        value_selector |-> <<"sys", "query">>],
                              right |-> [type |-> "value", value |-> ""]]]]

_create_iteration_node(node_id, title) ==
    [id |-> node_id, position |-> PyNone,
     data |-> [title |-> title, type |-> "iteration",
               iteration_type |-> "for-each",
               for_each_config |-> [items_variable_selector |-> <<"sys", "query">>,
                                    item_variable |-> "item"]]]

\* _create_node if the fallback labelled every kind without a builder "unknown"
_create_node_UnknownType(node_type, node_id, language) ==
    LET title == NodeTitle(node_type, language) IN
    CASE node_type = "llm" -> _create_llm_node(node_id, title)
      [] node_type = "knowledge-retrieval" -> _create_knowledge_retrieval_node(node_id, title)
      [] node_type = "http-request" -> _create_http_request_node(node_id, title)
      [] node_type = "code" -> _create_code_node(node_id, title)
      [] node_type = "template-transform" -> _create_template_transform_node(node_id, title)
      [] node_type = "answer" -> _create_answer_node(node_id, title)
      [] node_type = "if-else" -> _create_if_else_node(node_id, title)
      [] node_type = "iteration" -> _create_iteration_node(node_id, title)
      [] OTHER -> [id |-> node_id, position |-> PyNone,
                   data |-> [title |-> title, type |-> "unknown"]]

_create_node(node_type, node_id, language) ==
    LET title == NodeTitle(node_type, language) IN
    CASE node_type = "llm" -> _create_llm_node(node_id, title)
      [] node_type = "knowledge-retrieval" -> _create_knowledge_retrieval_node(node_id, title)
      [] node_type = "http-request" -> _create_http_request_node(node_id, title)
      [] node_type = "code" -> _create_code_node(node_id, title)
      [] node_type = "template-transform" -> _create_template_transform_node(node_id, title)
      [] node_type = "answer" -> _create_answer_node(node_id, title)
      [] node_type = "if-else" -> _create_if_else_node(node_id, title)
      [] node_type = "iteration" -> _create_iteration_node(node_id, title)
      [] OTHER -> [id |-> node_id, position |-> PyNone,
                   data |-> [title |-> title, type |-> node_type]]

\* _create_start_node's loop body: var["name"] and var["type"] raise KeyError
\* when the key is missing
\* FormatVariable if it honoured the 'required' flag the variable declares
FormatVariable_KeepRequired(var) ==
    [variable |-> var.map["name"], type |-> var.map["type"],
     required |-> IF "required" \in DOMAIN var.map THEN var.map["required"].b ELSE TRUE,
     default |-> ""]

FormatVariable(var) ==
    [variable |-> var.map["name"], type |-> var.map["type"], required |-> TRUE, default |-> ""]

\* the key whose lookup raises in _create_start_node for var ("" when none does)
MissingKey(var) ==
    IF "name" \notin DOMAIN var.map THEN "name"
    ELSE IF "type" \notin DOMAIN var.map THEN "type"
    ELSE ""

\* Outcome of a call that may raise: a value, or the text of the exception
Returned(x) == [raised |-> FALSE, value |-> x]
Raised(msg) == [raised |-> TRUE, exc |-> msg]

_create_start_node(variables, language) ==
    LET title == IF language = "en" THEN "START" ELSE "ja:kaishi"
        bad == {i \in 1..Len(variables.items) : MissingKey(variables.items[i]) # ""}
    IN  IF bad # {}
        THEN LET first == CHOOSE i \in bad : \A j \in bad : i <= j
             IN  Raised("'" \o MissingKey(variables.items[first]) \o "'")
        ELSE Returned(
               [id |-> "start", position |-> PyNone,
                data |-> [title |-> title, type |-> "start",
                          variables |-> [i \in 1..Len(variables.items) |->
                                            FormatVariable(variables.items[i])]]])

\* an end node that also translates the name of its output variable
_create_end_node_Localised(language) ==
    LET title == IF language = "en" THEN "END" ELSE "ja:shuuryou" IN
    [id |-> "end", position |-> PyNone,
     data |-> [title |-> title, type |-> "end",
               outputs |-> <<[variable |-> IF language = "en" THEN "result" ELSE "ja:kekka",
                              value_selector |-> <<"llm", "text">>]>>]]

_create_end_node(language) ==
    LET title == IF language = "en" THEN "END" ELSE "ja:shuuryou" IN
    [id |-> "end", position |-> PyNone,
     data |-> [title |-> title, type |-> "end",
               outputs |-> <<[variable |-> "result",
                              value_selector |-> <<"llm", "text">>]>>]]

----------------------------------------------------------------------------
(* Graph Builder: DifyDSLGenerator._generate_workflow_graph *)

\* a node id that leaves the position out
NodeId_NoIndex(node_type, i) == node_type
\* NodeId if the index were numbered on from the calls the generator has seen
NodeId_CallCounter(node_type, i) ==
    node_type \o "_" \o ToString(i + Cardinality({t \in DOMAIN tasks : tasks[t].pc # "idle"}))
\* NodeId if positions were counted from one
NodeId_OneBased(node_type, i) == node_type \o "_" \o ToString(i + 1)

\* f"{node_type}_{i}"
NodeId(node_type, i) == node_type \o "_" \o ToString(i)

\* the edge dictionary built from previous_node_id to node_id
\* an edge whose id joins the two ends the other way round
Edge_IdReversed(previous_node_id, node_id) ==
    [id |-> node_id \o "-" \o previous_node_id,
     source |-> previous_node_id,
     target |-> node_id]

Edge(previous_node_id, node_id) ==
    [id |-> previous_node_id \o "-" \o node_id,
     source |-> previous_node_id,
     target |-> node_id]

\* x in lst, for a list of strings
InList(x, lst) == \E j \in 1..Len(lst.items) : lst.items[j] = PyStr(x)

\* the for loop over enumerate(node_types), from 0-based index i on;
\* g holds the locals nodes, edges and previous_node_id
\* the loop without the skip of literal "start" entries
RECURSIVE GraphLoop_NoSkip(_, _, _, _)
GraphLoop_NoSkip(node_types, i, g, language) ==
    IF i >= Len(node_types.items) THEN g
    ELSE LET node_type == node_types.items[i + 1].s
             node_id == NodeId(node_type, i)
             node == _create_node(node_type, node_id, language)
         IN  GraphLoop_NoSkip(node_types, i + 1,
                              [nodes |-> Append(g.nodes, node),
                               edges |-> Append(g.edges, Edge(g.previous_node_id, node_id)),
                               previous_node_id |-> node_id],
                              language)

RECURSIVE GraphLoop(_, _, _, _)
GraphLoop(node_types, i, g, language) ==
    IF i >= Len(node_types.items) THEN g
    ELSE LET node_type == node_types.items[i + 1].s IN
         IF node_type = "start"
         THEN GraphLoop(node_types, i + 1, g, language)
         ELSE LET node_id == NodeId(node_type, i)
                  node == _create_node(node_type, node_id, language)
              IN  GraphLoop(node_types, i + 1,
                            [nodes |-> Append(g.nodes, node),
                             edges |-> Append(g.edges, Edge(g.previous_node_id, node_id)),
                             previous_node_id |-> node_id],
                            language)

\* an auto end node wired from the start node instead of the last node
AppendEnd_FromStart(node_types, g, language) ==
    IF ~InList("end", node_types)
    THEN LET end_node == _create_end_node(language) IN
         [nodes |-> Append(g.nodes, end_node),
          edges |-> Append(g.edges, Edge(g.nodes[1].id, end_node.id))]
    ELSE [nodes |-> g.nodes, edges |-> g.edges]

\* an auto end node appended whatever node_types lists
AppendEnd_Always(node_types, g, language) ==
    LET end_node == _create_end_node(language) IN
    [nodes |-> Append(g.nodes, end_node),
     edges |-> Append(g.edges, Edge(g.previous_node_id, end_node.id))]

\* the tail of _generate_workflow_graph: the auto end node
AppendEnd(node_types, g, language) ==
    IF ~InList("end", node_types)
    THEN LET end_node == _create_end_node(language) IN
         [nodes |-> Append(g.nodes, end_node),
          edges |-> Append(g.edges, Edge(g.previous_node_id, end_node.id))]
    ELSE [nodes |-> g.nodes, edges |-> g.edges]

\* iterating a value that is no list raises TypeError
NotIterable(x) == "'" \o (IF x.t = "None" THEN "NoneType" ELSE x.t) \o "' object is not iterable"

_generate_workflow_graph(node_types, variables, language) ==
    IF variables.t # "list" THEN Raised(NotIterable(variables))
    ELSE LET start_node == _create_start_node(variables, language) IN
         IF start_node.raised THEN start_node
         ELSE IF node_types.t # "list" THEN Raised(NotIterable(node_types))
         ELSE LET g0 == [nodes |-> <<start_node.value>>,
                         edges |-> <<>>,
                         previous_node_id |-> start_node.value.id]
                  g == GraphLoop(node_types, 0, g0, language)
              IN  Returned(AppendEnd(node_types, g, language))

----------------------------------------------------------------------------
(* Feature Synthesizer: DifyDSLGenerator._generate_features *)

\* a feature block that looks for the kind under a misspelt tag
_generate_features_Misspelt(node_types, language) ==
    LET retriever_resource ==
            IF InList("knowledge_retrieval", node_types)
            THEN PyDict([enabled |-> TRUE])
            ELSE EmptyDict
    IN  [opening_statement |->
             IF language = "ja" THEN "ja:konnichiwa, dono you ni otetsudai dekimasu ka?"
             ELSE "Hello, how can I help you today?",
         suggested_questions |->
             IF language = "ja" THEN <<"ja:shitsumon-rei 1", "ja:shitsumon-rei 2">>
             ELSE <<"Example question 1", "Example question 2">>,
         suggested_questions_after_answer |-> <<>>,
         speech_to_text |-> FALSE,
         text_to_speech |-> FALSE,
         file_upload |-> FALSE,
         sensitive_word_avoidance |-> FALSE,
         retriever_resource |-> retriever_resource]

\* _generate_features if it chose its texts the way the start and end nodes
\* choose their titles: English for "en", Japanese for every other tag
_generate_features_EnglishOnlyForEn(node_types, language) ==
    LET retriever_resource ==
            IF InList("knowledge-retrieval", node_types)
            THEN PyDict([enabled |-> TRUE])
            ELSE EmptyDict
    IN  [opening_statement |->
             IF language = "en" THEN "Hello, how can I help you today?"
             ELSE "ja:konnichiwa, dono you ni otetsudai dekimasu ka?",
         suggested_questions |->
             IF language = "en" THEN <<"Example question 1", "Example question 2">>
             ELSE <<"ja:shitsumon-rei 1", "ja:shitsumon-rei 2">>,
         suggested_questions_after_answer |-> <<>>,
         speech_to_text |-> FALSE,
         text_to_speech |-> FALSE,
         file_upload |-> FALSE,
         sensitive_word_avoidance |-> FALSE,
         retriever_resource |-> retriever_resource]

_generate_features(node_types, language) ==
    LET retriever_resource ==
            IF InList("knowledge-retrieval", node_types)
            THEN PyDict([enabled |-> TRUE])
            ELSE EmptyDict
    IN  [opening_statement |->
             IF language = "ja" THEN "ja:konnichiwa, dono you ni otetsudai dekimasu ka?"
             ELSE "Hello, how can I help you today?",
         suggested_questions |->
             IF language = "ja" THEN <<"ja:shitsumon-rei 1", "ja:shitsumon-rei 2">>
             ELSE <<"Example question 1", "Example question 2">>,
         suggested_questions_after_answer |-> <<>>,
         speech_to_text |-> FALSE,
         text_to_speech |-> FALSE,
         file_upload |-> FALSE,
         sensitive_word_avoidance |-> FALSE,
         retriever_resource |-> retriever_resource]

----------------------------------------------------------------------------
(* Reply text and json.loads.                                              *)
(* A reply text is a sequence of tokens: the single characters { } [ ] , : *)
(* the JSON literals (strings, numbers, null, true, false) and "prose", a  *)
(* run of characters that are neither braces nor part of a JSON literal.   *)
(* String literals hold no brace character.                                *)

LBrace == [k |-> "{"]
RBrace == [k |-> "}"]
LBrack == [k |-> "["]
RBrack == [k |-> "]"]
Comma == [k |-> ","]
Colon == [k |-> ":"]
NullTok == [k |-> "null"]
TrueTok == [k |-> "true"]
FalseTok == [k |-> "false"]
Prose == [k |-> "prose"]
StrTok(s) == [k |-> "str", s |-> s]
NumTok(n) == [k |-> "num", n |-> n]

\* str.find(ch): 0-based index of the first ch, -1 when there is none
Find(content, ch) ==
    IF \E i \in 1..Len(content) : content[i] = ch
    THEN (CHOOSE i \in 1..Len(content) :
             content[i] = ch /\ \A j \in 1..(i - 1) : content[j] # ch) - 1
    ELSE -1

\* str.rfind(ch): 0-based index of the last ch, -1 when there is none
RFind(content, ch) ==
    IF \E i \in 1..Len(content) : content[i] = ch
    THEN (CHOOSE i \in 1..Len(content) :
             content[i] = ch /\ \A j \in (i + 1)..Len(content) : content[j] # ch) - 1
    ELSE -1

\* content[a:b] for 0 <= a <= b <= len(content)
Slice(content, a, b) == SubSeq(content, a + 1, b)

ParseFail == [ok |-> FALSE]
ParseOk(val, pos) == [ok |-> TRUE, val |-> val, pos |-> pos]

\* The JSON decoder: each operator parses from token position i and returns
\* the value with the position after it, or ParseFail (JSONDecodeError).
RECURSIVE ParseValue(_, _)
RECURSIVE ParseMembers(_, _, _)
RECURSIVE ParseElements(_, _, _)

\* after '{' or ',': a "key": value pair is expected at i; acc holds the pairs so far
ParseMembers(toks, i, acc) ==
    IF i + 1 > Len(toks) \/ toks[i].k # "str" \/ toks[i + 1] # Colon THEN ParseFail
    ELSE LET r == ParseValue(toks, i + 2) IN
         IF ~r.ok \/ r.pos > Len(toks) THEN ParseFail
         ELSE LET acc2 == (toks[i].s :> r.val) @@ acc IN
              IF toks[r.pos] = RBrace THEN ParseOk(PyDict(acc2), r.pos + 1)
              ELSE IF toks[r.pos] = Comma THEN ParseMembers(toks, r.pos + 1, acc2)
              ELSE ParseFail

\* after '[' or ',': a value is expected at i; acc holds the elements so far
ParseElements(toks, i, acc) ==
    LET r == ParseValue(toks, i) IN
    IF ~r.ok \/ r.pos > Len(toks) THEN ParseFail
    ELSE LET acc2 == Append(acc, r.val) IN
         IF toks[r.pos] = RBrack THEN ParseOk(PyList(acc2), r.pos + 1)
         ELSE IF toks[r.pos] = Comma THEN ParseElements(toks, r.pos + 1, acc2)
         ELSE ParseFail

ParseValue(toks, i) ==
    IF i > Len(toks) THEN ParseFail
    ELSE CASE toks[i].k = "str" -> ParseOk(PyStr(toks[i].s), i + 1)
           [] toks[i].k = "num" -> ParseOk(PyInt(toks[i].n), i + 1)
           [] toks[i].k = "null" -> ParseOk(PyNone, i + 1)
           [] toks[i].k = "true" -> ParseOk(PyBool(TRUE), i + 1)
           [] toks[i].k = "false" -> ParseOk(PyBool(FALSE), i + 1)
           [] toks[i].k = "{" ->
                IF i + 1 <= Len(toks) /\ toks[i + 1] = RBrace
                THEN ParseOk(EmptyDict, i + 2)
                ELSE ParseMembers(toks, i + 1, <<>>)
           [] toks[i].k = "[" ->
                IF i + 1 <= Len(toks) /\ toks[i + 1] = RBrack
                THEN ParseOk(PyList(<<>>), i + 2)
                ELSE ParseElements(toks, i + 1, <<>>)
           [] OTHER -> ParseFail

\* json.loads(json_str): the value, or a raise when json_str is not one JSON value
json_loads(json_str) ==
    LET r == ParseValue(json_str, 1) IN
    IF r.ok /\ r.pos = Len(json_str) + 1
    THEN Returned(r.val)
    ELSE Raised("JSONDecodeError")

----------------------------------------------------------------------------
(* Intent Analyzer: IntentAnalyzer.analyze and _get_default_config *)

_get_default_config(language) ==
    IF language = "ja"
    THEN PyDict([workflow_name |-> PyStr("ja:kihon waakufuroo"),
                 description |-> PyStr("ja:kihonteki na shitsumon outou waakufuroo"),
                 node_types |-> PyList(<<PyStr("llm"), PyStr("answer")>>),
                 variables |-> PyList(<<PyDict([name |-> PyStr("ja:shitsumon"),
                                                type |-> PyStr("string"),
                                                required |-> PyBool(TRUE)])>>)])
    ELSE PyDict([workflow_name |-> PyStr("Basic Workflow"),
                 description |-> PyStr("A basic question-answering workflow"),
                 node_types |-> PyList(<<PyStr("llm"), PyStr("answer")>>),
                 variables |-> PyList(<<PyDict([name |-> PyStr("query"),
                                                type |-> PyStr("string"),
                                                required |-> PyBool(TRUE)])>>)])

\* a parse that answers a broken JSON part with an empty configuration
ParseResponse_EmptyOnError(content, language) ==
    IF content.t # "str" THEN _get_default_config(language)
    ELSE LET json_start == Find(content.s, LBrace)
             json_end == RFind(content.s, RBrace) + 1
         IN  IF json_start >= 0 /\ json_end > json_start
             THEN LET parsed == json_loads(Slice(content.s, json_start, json_end)) IN
                  IF parsed.raised THEN EmptyDict
                  ELSE parsed.value
             ELSE _get_default_config(language)

\* a parse that decodes the first JSON value after the first '{' and leaves
\* the rest of the reply unread
ParseResponse_FirstObject(content, language) ==
    IF content.t # "str" THEN _get_default_config(language)
    ELSE LET json_start == Find(content.s, LBrace)
             json_end == RFind(content.s, RBrace) + 1
         IN  IF json_start >= 0 /\ json_end > json_start
             THEN LET first == ParseValue(content.s, json_start + 1) IN
                  IF first.ok THEN first.val ELSE _get_default_config(language)
             ELSE _get_default_config(language)

\* a parse that completes the object of the reply with the default fields
ParseResponse_FillMissing(content, language) ==
    IF content.t # "str" THEN _get_default_config(language)
    ELSE LET json_start == Find(content.s, LBrace)
             json_end == RFind(content.s, RBrace) + 1
         IN  IF json_start >= 0 /\ json_end > json_start
             THEN LET parsed == json_loads(Slice(content.s, json_start, json_end)) IN
                  IF parsed.raised THEN _get_default_config(language)
                  ELSE PyDict(parsed.value.map @@ _get_default_config(language).map)
             ELSE _get_default_config(language)

\* the try block of analyze: response is the client's reply, whose message
\* content is a text or None
ParseResponse(content, language) ==
    IF content.t # "str" THEN _get_default_config(language)  \* None.find raises, caught
    ELSE LET json_start == Find(content.s, LBrace)
             json_end == RFind(content.s, RBrace) + 1
         IN  IF json_start >= 0 /\ json_end > json_start
             THEN LET parsed == json_loads(Slice(content.s, json_start, json_end)) IN
                  IF parsed.raised THEN _get_default_config(language)
                  ELSE parsed.value
             ELSE _get_default_config(language)

\* What the model client does with one chat_completion call
NoReply == [kind |-> "none"]
ClientRaises(msg) == [kind |-> "raise", exc |-> msg]
ClientReplies(content) == [kind |-> "reply", content |-> content]

\* analyze, from the outcome of its awaited client call: the await is outside
\* the try block, so a raise of the client leaves analyze as it is
analyze(outcome, language) ==
    IF outcome.kind = "raise" THEN Raised(outcome.exc)
    ELSE Returned(ParseResponse(outcome.content, language))

----------------------------------------------------------------------------
(* DifyDSLGenerator.execute *)

\* ToolResult(output=..., error=...): both fields default to None
ToolResult(output, error) == [output |-> output, error |-> error]

\* an extraction in which a caller's explicit parameter wins over the config
ExtractConfig_ExplicitFirst(a, cfg) ==
    [a EXCEPT
       !.workflow_name = PyOr(a.workflow_name,
                              DictGet(cfg, "workflow_name", PyStr("Generated Workflow"))),
       !.description = PyOr(a.description, DictGet(cfg, "description", PyStr(""))),
       !.node_types = PyOr(a.node_types,
                           DictGet(cfg, "node_types",
                                   PyList(<<PyStr("llm"), PyStr("answer")>>))),
       !.variables = PyOr(a.variables, DictGet(cfg, "variables", PyList(<<>>)))]

\* an extraction that leaves the variables of the config out
ExtractConfig_KeepVariables(a, cfg) ==
    [a EXCEPT
       !.workflow_name = DictGet(cfg, "workflow_name",
                                 PyOr(a.workflow_name, PyStr("Generated Workflow"))),
       !.description = DictGet(cfg, "description", PyOr(a.description, PyStr(""))),
       !.node_types = DictGet(cfg, "node_types",
                              PyOr(a.node_types, PyList(<<PyStr("llm"), PyStr("answer")>>))),
       !.variables = PyOr(a.variables, PyList(<<>>))]

\* lines 102-105: the configuration values taken from the analysed config,
\* the explicit parameters (or the literals) being the defaults of config.get
ExtractConfig(a, cfg) ==
    [a EXCEPT
       !.workflow_name = DictGet(cfg, "workflow_name",
                                 PyOr(a.workflow_name, PyStr("Generated Workflow"))),
       !.description = DictGet(cfg, "description", PyOr(a.description, PyStr(""))),
       !.node_types = DictGet(cfg, "node_types",
                              PyOr(a.node_types, PyList(<<PyStr("llm"), PyStr("answer")>>))),
       !.variables = DictGet(cfg, "variables", PyOr(a.variables, PyList(<<>>)))]

\* lines 109-118: "Ensure required parameters are set"
\* EnsureDefaults if an absent node_types stood for the empty list
EnsureDefaults_NoNodes(a) ==
    [a EXCEPT
       !.workflow_name = IF a.workflow_name = PyNone THEN PyStr("Default Workflow")
                         ELSE a.workflow_name,
       !.node_types = IF a.node_types = PyNone THEN PyList(<<>>) ELSE a.node_types,
       !.variables = IF a.variables = PyNone THEN PyList(<<>>) ELSE a.variables]

EnsureDefaults(a) ==
    [a EXCEPT
       !.workflow_name = IF a.workflow_name = PyNone THEN PyStr("Default Workflow")
                         ELSE a.workflow_name,
       !.node_types = IF a.node_types = PyNone
                      THEN PyList(<<PyStr("llm"), PyStr("answer")>>)
                      ELSE a.node_types,
       !.variables = IF a.variables = PyNone THEN PyList(<<>>) ELSE a.variables]

\* a failure that hands back what was assembled so far
Generate_LeakPartial(a0) ==
    LET a == EnsureDefaults(a0)
        graph == _generate_workflow_graph(a.node_types, a.variables, a.language)
    IN  IF graph.raised
        THEN ToolResult([name |-> a.workflow_name,
                         description |-> a.description,
                         graph |-> [nodes |-> <<>>, edges |-> <<>>]],
                        PyStr("Failed to generate workflow DSL: " \o graph.exc))
        ELSE ToolResult([name |-> a.workflow_name,
                         description |-> a.description,
                         graph |-> graph.value,
                         features |-> _generate_features(a.node_types, a.language)],
                        PyNone)

\* lines 109-136: from the parameters as they stand after the user_input block
Generate(a0) ==
    LET a == EnsureDefaults(a0)
        graph == _generate_workflow_graph(a.node_types, a.variables, a.language)
    IN  IF graph.raised
        THEN ToolResult(PyNone, PyStr("Failed to generate workflow DSL: " \o graph.exc))
        ELSE ToolResult([name |-> a.workflow_name,
                         description |-> a.description,
                         graph |-> graph.value,
                         features |-> _generate_features(a.node_types, a.language)],
                        PyNone)

\* execute for a call that made no client call (user_input falsy)
ExecuteExplicit(a) == Generate(a)

\* execute for a call with user_input, from the outcome of the client call
\* ExecuteWithInput if the error result left out the text of the exception
ExecuteWithInput_BareMessage(a, outcome) ==
    LET cfg == analyze(outcome, a.language) IN
    IF cfg.raised
    THEN ToolResult(PyNone, PyStr("Failed to analyze user input"))
    ELSE Generate(ExtractConfig(a, cfg.value))

ExecuteWithInput(a, outcome) ==
    LET cfg == analyze(outcome, a.language) IN
    IF cfg.raised
    THEN ToolResult(PyNone, PyStr("Failed to analyze user input: " \o cfg.exc))
    ELSE Generate(ExtractConfig(a, cfg.value))

----------------------------------------------------------------------------
(* Inputs *)

\* the ten kind tags of the parameter schema and one tag outside it
Kinds == {"start", "end", "llm", "knowledge-retrieval", "http-request", "code",
          "template-transform", "answer", "if-else", "iteration", "custom"}

\* "en", "ja" and a tag outside the schema
Languages == {"en", "ja", "fr"}

StrList(s) == PyList([i \in 1..Len(s) |-> PyStr(s[i])])

\* variable dictionaries: well-formed without and with 'required', and one
\* lacking 'name'; a caller's explicit list is drawn from VariablePool
GoodVar == PyDict([name |-> PyStr("q"), type |-> PyStr("string")])
OptionalVar == PyDict([name |-> PyStr("n"), type |-> PyStr("number"),
                       required |-> PyBool(FALSE)])
NamelessVar == PyDict([type |-> PyStr("string")])
VariablePool == {GoodVar, OptionalVar, NamelessVar}

\* the arguments of a call without user_input
\* (a caller names and describes the workflow, or leaves both to the defaults
\* None and "" of the signature)
ExplicitArgs ==
    UNION {[user_input : {PyNone, PyStr("")},
            workflow_name : {nd[1]},
            description : {nd[2]},
            node_types : {PyNone} \cup {StrList(s) : s \in SeqsUpTo(Kinds, MaxNodeTypes)},
            variables : {PyNone} \cup {PyList(s) : s \in SeqsUpTo(VariablePool, MaxVariables)},
            language : Languages]
           : nd \in {<<PyNone, PyStr("")>>, <<PyStr("W"), PyStr("D")>>}}

\* the arguments of a call with user_input
InputArgs ==
    [user_input : {PyStr("answer questions about my documents")},
     workflow_name : {PyNone, PyStr(""), PyStr("W")},
     description : {PyNone, PyStr("D")},
     node_types : {PyNone, StrList(<<>>), StrList(<<"code">>)},
     variables : {PyNone, PyList(<<OptionalVar>>)},
     language : Languages]

\* JSON text of a value
RECURSIVE Dumps(_)
RECURSIVE DumpsItems(_, _)
RECURSIVE DumpsMembers(_, _)
DumpsItems(s, i) ==
    IF i > Len(s) THEN <<>>
    ELSE (IF i > 1 THEN <<Comma>> ELSE <<>>) \o Dumps(s[i]) \o DumpsItems(s, i + 1)
DumpsMembers(f, keys) ==
    IF keys = {} THEN <<>>
    ELSE LET k == CHOOSE x \in keys : TRUE IN
         <<StrTok(k), Colon>> \o Dumps(f[k])
            \o (IF keys = {k} THEN <<>> ELSE <<Comma>>) \o DumpsMembers(f, keys \ {k})
Dumps(x) ==
    CASE x.t = "None" -> <<NullTok>>
      [] x.t = "str" -> <<StrTok(x.s)>>
      [] x.t = "int" -> <<NumTok(x.n)>>
      [] x.t = "bool" -> <<IF x.b THEN TrueTok ELSE FalseTok>>
      [] x.t = "list" -> <<LBrack>> \o DumpsItems(x.items, 1) \o <<RBrack>>
      [] x.t = "dict" -> <<LBrace>> \o DumpsMembers(x.map, DOMAIN x.map) \o <<RBrace>>

\* the values a reply gives each field of the configuration, when it gives it
FieldValues ==
    [workflow_name |-> {PyNone, PyStr("Doc QA")},
     description |-> {PyNone, PyStr("answers from documents")},
     node_types |-> {PyNone, PyInt(5),
                     StrList(<<"knowledge-retrieval", "llm">>),
                     StrList(<<"start", "if-else", "end", "llm">>)},
     variables |-> {PyNone, PyList(<<GoodVar, OptionalVar>>), PyList(<<NamelessVar>>)}]

FieldNames == {"workflow_name", "description", "node_types", "variables"}

\* configurations a reply holds: any subset of the four fields, each with
\* one of its values
ReplyConfigs ==
    {PyDict(f) : f \in UNION {
        {g \in [K -> UNION {FieldValues[k] : k \in K}] : \A k \in K : g[k] \in FieldValues[k]}
        : K \in SUBSET FieldNames}}

\* a configuration whose text holds nested braces, and a second one
NestedConfig ==
    PyDict([node_types |-> StrList(<<"llm", "end">>),
            variables |-> PyList(<<GoodVar>>)])
OtherConfig == PyDict([workflow_name |-> PyStr("Second")])

\* what stands around the JSON part of a reply
Around == {Prose, LBrace, RBrace}

\* the JSON part of a reply that is wrapped: nothing, one object, an object
\* cut short, a member list without value, two objects one after the other
Cores ==
    {<<>>,
     Dumps(NestedConfig),
     <<LBrace, StrTok("node_types"), Colon, LBrack>>,
     <<LBrace, StrTok("node_types"), RBrace>>,
     Dumps(OtherConfig) \o <<Prose>> \o Dumps(NestedConfig)}

\* the message content of a reply: None, or a text
ReplyContents ==
    {PyNone}
      \cup {PyStr(Dumps(c)) : c \in ReplyConfigs}
      \cup {PyStr(pre \o core \o suf) :
               pre \in SeqsUpTo(Around, MaxProse),
               core \in Cores,
               suf \in SeqsUpTo(Around, MaxProse)}

\* the errors of the model client: transport, HTTP, timeout
ClientErrors == {"ConnectionError", "HTTP 500", "TimeoutError"}

NoConfig == [raised |-> FALSE, value |-> PyNone]
NoResult == [output |-> PyNone, error |-> PyNone]
NoArgs == [user_input |-> PyNone, workflow_name |-> PyNone, description |-> PyStr(""),
           node_types |-> PyNone, variables |-> PyNone, language |-> "en"]

\* the instance after DifyDSLGenerator(): its name and the IntentAnalyzer of
\* the default factory, whose one field is the client made by LLM()
Constructed ==
    [name |-> "dify_dsl_generator",
     intent_analyzer |-> [llm |-> "LLM()"]]

\* the coroutines of the concurrent runs, and a coroutine not yet started
Tasks == 1..MaxTasks
IdleTask == [pc |-> "idle", args |-> NoArgs, reply |-> NoReply, result |-> NoResult]

----------------------------------------------------------------------------
(* The state machine: one generator, one execute call at a time *)

Init ==
    /\ pc = "idle"
    /\ args = NoArgs
    /\ reply = NoReply
    /\ config = NoConfig
    /\ result = NoResult
    /\ llm_calls = 0
    /\ tasks = [t \in Tasks |-> IdleTask]
    /\ generator = Constructed

\* CallExplicit if only an absent user_input, and not an empty one, kept
\* execute from calling the analyzer
CallExplicit_EmptyIsInput ==
    /\ pc = "idle"
    /\ \E a \in ExplicitArgs :
          /\ args' = a
          /\ IF a.user_input = PyNone
             THEN result' = ExecuteExplicit(a) /\ pc' = "done" /\ llm_calls' = llm_calls
             ELSE result' = result /\ pc' = "awaiting" /\ llm_calls' = llm_calls + 1
    /\ UNCHANGED <<reply, config, tasks, generator>>

\* execute(...) with user_input absent or empty: runs to its return
CallExplicit ==
    /\ pc = "idle"
    /\ \E a \in ExplicitArgs :
          /\ ~Truthy(a.user_input)
          /\ args' = a
          /\ result' = ExecuteExplicit(a)
    /\ pc' = "done"
    /\ UNCHANGED <<reply, config, llm_calls, tasks, generator>>

\* execute(...) with user_input: runs to the await of chat_completion
CallWithInput ==
    /\ pc = "idle"
    /\ \E a \in InputArgs :
          /\ Truthy(a.user_input)
          /\ args' = a
    /\ llm_calls' = llm_calls + 1
    /\ pc' = "awaiting"
    /\ UNCHANGED <<reply, config, result, tasks, generator>>

\* the client call returns a reply; analyze and execute run to their return
ClientReply ==
    /\ pc = "awaiting"
    /\ \E content \in ReplyContents :
          /\ reply' = ClientReplies(content)
          /\ config' = analyze(ClientReplies(content), args.language)
          /\ result' = ExecuteWithInput(args, ClientReplies(content))
    /\ pc' = "done"
    /\ UNCHANGED <<args, llm_calls, tasks, generator>>

\* the client call raises; the exception travels up to execute
ClientFail ==
    /\ pc = "awaiting"
    /\ \E e \in ClientErrors :
          /\ reply' = ClientRaises(e)
          /\ config' = analyze(ClientRaises(e), args.language)
          /\ result' = ExecuteWithInput(args, ClientRaises(e))
    /\ pc' = "done"
    /\ UNCHANGED <<args, llm_calls, tasks, generator>>

\* the caller takes the result; the generator is ready for the next call
Return ==
    /\ pc = "done"
    /\ pc' = "idle"
    /\ args' = NoArgs
    /\ reply' = NoReply
    /\ config' = NoConfig
    /\ result' = NoResult
    /\ llm_calls' = 0
    /\ UNCHANGED <<tasks, generator>>

Next == CallExplicit \/ CallWithInput \/ ClientReply \/ ClientFail \/ Return

Spec == Init /\ [][Next]_vars

----------------------------------------------------------------------------
(* The state machine: several execute coroutines on one shared generator.
   A coroutine keeps its arguments and locals in its own frame; explicit
   generation has no await and runs to its return in one step; generation
   from user_input suspends once, at the await of chat_completion, where
   the event loop may run any other coroutine.  Neither DifyDSLGenerator
   nor IntentAnalyzer assigns a field after construction. *)

\* what the callers of the concurrent runs pass
TaskExplicitArgs ==
    [user_input : {PyNone}, workflow_name : {PyStr("W")}, description : {PyStr("D")},
     node_types : {StrList(<<>>), StrList(<<"llm", "answer">>)},
     variables : {PyNone}, language : {"en", "ja"}]
TaskInputArgs ==
    [user_input : {PyStr("answer questions about my documents")},
     workflow_name : {PyNone}, description : {PyNone}, node_types : {PyNone},
     variables : {PyNone}, language : {"en", "ja"}]
\* what the model client answers in the concurrent runs
TaskReplies == {PyStr(Dumps(NestedConfig)), PyStr(<<Prose>>)}

Finished(t, a, r, res) ==
    [tasks EXCEPT ![t] = [pc |-> "done", args |-> a, reply |-> r, result |-> res]]

\* a coroutine runs execute(...) without user_input to its return
TaskCallExplicit ==
    /\ \E t \in Tasks, a \in TaskExplicitArgs :
          /\ tasks[t].pc = "idle"
          /\ tasks' = Finished(t, a, NoReply, ExecuteExplicit(a))
    /\ UNCHANGED <<pc, args, reply, config, result, llm_calls, generator>>

\* TaskCallWithInput if analyze kept the request in a field of the analyzer
TaskCallWithInput_KeepsRequest ==
    /\ \E t \in Tasks, a \in TaskInputArgs :
          /\ tasks[t].pc = "idle"
          /\ tasks' = [tasks EXCEPT ![t] = [pc |-> "awaiting", args |-> a,
                                            reply |-> NoReply, result |-> NoResult]]
          /\ generator' = [generator EXCEPT
                              !.intent_analyzer = [llm |-> "LLM()", language |-> a.language]]
    /\ UNCHANGED <<pc, args, reply, config, result, llm_calls>>

\* a coroutine runs execute(...) with user_input to the await
TaskCallWithInput ==
    /\ \E t \in Tasks, a \in TaskInputArgs :
          /\ tasks[t].pc = "idle"
          /\ tasks' = [tasks EXCEPT ![t] = [pc |-> "awaiting", args |-> a,
                                            reply |-> NoReply, result |-> NoResult]]
    /\ UNCHANGED <<pc, args, reply, config, result, llm_calls, generator>>

\* TaskClientReply if analyze kept the language on the shared analyzer
\* across the await instead of in its own frame
TaskClientReply_SharedLanguage ==
    /\ \E t \in Tasks, u \in Tasks, content \in TaskReplies :
          /\ tasks[t].pc = "awaiting"
          /\ tasks[u].pc # "idle"
          /\ tasks' = Finished(t, tasks[t].args, ClientReplies(content),
                               ExecuteWithInput([tasks[t].args EXCEPT
                                                    !.language = tasks[u].args.language],
                                                ClientReplies(content)))
    /\ UNCHANGED <<pc, args, reply, config, result, llm_calls, generator>>

\* the event loop resumes a suspended coroutine with its reply
TaskClientReply ==
    /\ \E t \in Tasks, content \in TaskReplies :
          /\ tasks[t].pc = "awaiting"
          /\ tasks' = Finished(t, tasks[t].args, ClientReplies(content),
                               ExecuteWithInput(tasks[t].args, ClientReplies(content)))
    /\ UNCHANGED <<pc, args, reply, config, result, llm_calls, generator>>

\* a client failure answered by awaiting the client again
TaskClientFail_Retry ==
    /\ \E t \in Tasks, e \in ClientErrors :
          /\ tasks[t].pc = "awaiting"
          /\ tasks' = [tasks EXCEPT ![t].reply = ClientRaises(e)]
    /\ UNCHANGED <<pc, args, reply, config, result, llm_calls, generator>>

\* the event loop resumes a suspended coroutine with the client's exception
TaskClientFail ==
    /\ \E t \in Tasks :
          /\ tasks[t].pc = "awaiting"
          /\ tasks' = Finished(t, tasks[t].args, ClientRaises("ConnectionError"),
                               ExecuteWithInput(tasks[t].args,
                                                ClientRaises("ConnectionError")))
    /\ UNCHANGED <<pc, args, reply, config, result, llm_calls, generator>>

NextTask == TaskCallExplicit \/ TaskCallWithInput \/ TaskClientReply \/ TaskClientFail

SpecTasks == Init /\ [][NextTask]_vars

\* the client ends the call coroutine t awaits, by a reply or by a failure,
\* and the event loop resumes the coroutine
ClientEnds(t) ==
    /\ tasks[t].pc = "awaiting"
    /\ TaskClientFail \/ TaskClientReply
    /\ tasks'[t] # tasks[t]

\* SpecTasks for a model client that leaves no call pending for ever
LiveTasks == SpecTasks /\ \A t \in Tasks : WF_vars(ClientEnds(t))

----------------------------------------------------------------------------
(* Vocabulary of the properties *)

Done == pc = "done"
Explicit == ~Truthy(args.user_input)
HasDocument == result.output # PyNone
HasError == result.error # PyNone

\* the parameters as they stand when the graph is built
Resolved ==
    IF Explicit THEN EnsureDefaults(args)
    ELSE EnsureDefaults(ExtractConfig(args, config.value))

\* the plain sequence of kind tags of a list of strings
Tags(lst) == [i \in 1..Len(lst.items) |-> lst.items[i].s]

WellFormed(variables) ==
    variables.t = "list"
      /\ \A i \in 1..Len(variables.items) :
            {"name", "type"} \subseteq DOMAIN variables.items[i].map

\* edges e join the nodes n pairwise, in order
Chained(n, e) ==
    /\ Len(e) = Len(n) - 1
    /\ \A j \in 1..Len(e) : e[j].source = n[j].id /\ e[j].target = n[j + 1].id

----------------------------------------------------------------------------
(* C1: an explicit call whose node_types [k1..kn] holds neither "start" nor
   "end" yields the n+2 nodes start, k1_0, ..., kn_(n-1), end, in this
   order, and n+1 edges that chain them from "start" to "end". *)
C1_LinearChain ==
    (Done /\ Explicit /\ args.node_types.t = "list"
       /\ WellFormed(Resolved.variables)
       /\ \A j \in 1..Len(args.node_types.items) :
             args.node_types.items[j].s \notin {"start", "end"})
    => LET k == Tags(args.node_types)
           n == Len(k)
           nodes == result.output.graph.nodes
           edges == result.output.graph.edges
       IN  /\ HasDocument
           /\ Len(nodes) = n + 2
           /\ nodes[1].id = "start"
           /\ nodes[n + 2].id = "end"
           /\ \A j \in 1..n : nodes[j + 1].id = k[j] \o "_" \o ToString(j - 1)
           /\ Len(edges) = n + 1
           /\ Chained(nodes, edges)

C1_Witness ==
    /\ Done /\ Explicit /\ HasDocument
    /\ args.node_types = StrList(<<"llm", "answer">>)
    /\ [j \in 1..4 |-> result.output.graph.nodes[j].id] = <<"start", "llm_0", "answer_1", "end">>
    /\ Len(result.output.graph.edges) = 3

(* C2: in every document the node ids are pairwise distinct and every edge
   joins ids of nodes of the document, whatever node_types holds (repeated
   kinds, kinds outside the schema, "start" and "end" entries). *)
C2_UniqueIdsClosedEdges ==
    (Done /\ HasDocument)
    => LET nodes == result.output.graph.nodes
           edges == result.output.graph.edges
           ids == {nodes[j].id : j \in 1..Len(nodes)}
       IN  /\ \A i, j \in 1..Len(nodes) : i # j => nodes[i].id # nodes[j].id
           /\ \A j \in 1..Len(edges) : edges[j].source \in ids /\ edges[j].target \in ids

C2_Witness ==
    /\ Done /\ HasDocument
    /\ Resolved.node_types = StrList(<<"code", "code">>)
    /\ Len(result.output.graph.nodes) = 4

(* C3: in every document the edges, read in order, form one linear chain
   that starts at the node of type "start" and ends at a node of type "end". *)
C3_ChainStartToEnd ==
    (Done /\ HasDocument)
    => LET nodes == result.output.graph.nodes
           edges == result.output.graph.edges
       IN  /\ Chained(nodes, edges)
           /\ \A i, j \in 1..Len(nodes) : i # j => nodes[i].id # nodes[j].id
           /\ nodes[1].data.type = "start"
           /\ nodes[Len(nodes)].data.type = "end"

(* C4: every generation call produces a workflow document: whatever the
   arguments and whatever the model client does (any reply text, a transport
   or HTTP failure, a timeout), the result carries a document and no error.
   Calls whose node_types is no list or whose variables lack 'name' or
   'type' (the wrong shapes the error result is reserved for) are left out. *)
C4_AlwaysDocument ==
    (Done /\ (config.raised
                \/ (Resolved.node_types.t = "list" /\ WellFormed(Resolved.variables))))
    => (HasDocument /\ ~HasError)

(* C5: analyze never raises to its caller: when the client call fails,
   analyze returns the fixed default configuration of the requested
   language (node_types ["llm", "answer"], one string variable). *)
C5_ClientFailureFallsBack ==
    (Done /\ reply.kind = "raise")
    => /\ ~config.raised
       /\ config = Returned(_get_default_config(args.language))

\* the text has no '{', no '}', its last '}' before its first '{', or a
\* span from the first '{' to the last '}' that is not one JSON value
Unusable(text) ==
    LET opens == {i \in 1..Len(text) : text[i] = LBrace}
        closes == {i \in 1..Len(text) : text[i] = RBrace}
    IN  \/ opens = {}
        \/ closes = {}
        \/ \A c \in closes : \A o \in opens : c < o
        \/ LET first == CHOOSE o \in opens : \A x \in opens : o <= x
               last == CHOOSE c \in closes : \A x \in closes : x <= c
           IN  json_loads(SubSeq(text, first, last)).raised

\* the two tables of _get_default_config, by their contents
IsDefaultConfig(c, language) ==
    /\ c.t = "dict"
    /\ DOMAIN c.map = FieldNames
    /\ c.map["workflow_name"] =
          PyStr(IF language = "ja" THEN "ja:kihon waakufuroo" ELSE "Basic Workflow")
    /\ c.map["description"] =
          PyStr(IF language = "ja" THEN "ja:kihonteki na shitsumon outou waakufuroo"
                ELSE "A basic question-answering workflow")
    /\ c.map["node_types"] = StrList(<<"llm", "answer">>)
    /\ c.map["variables"] =
          PyList(<<PyDict([name |-> PyStr(IF language = "ja" THEN "ja:shitsumon" ELSE "query"),
                           type |-> PyStr("string"),
                           required |-> PyBool(TRUE)])>>)

(* C6: a reply whose text has no '{', no '}', its last '}' before its first
   '{', or a first-'{'-to-last-'}' span that is not valid JSON makes analyze
   return the fixed default configuration of the requested language: the
   "ja" table for "ja", the English table for every other tag. *)
C6_UnusableReplyFallsBack ==
    (Done /\ reply.kind = "reply" /\ reply.content.t = "str" /\ Unusable(reply.content.s))
    => /\ ~config.raised
       /\ IsDefaultConfig(config.value, args.language)

C6_Witness ==
    /\ Done /\ reply.kind = "reply" /\ reply.content.t = "str"
    /\ reply.content.s = <<Prose, LBrace, StrTok("node_types"), RBrace, RBrace>>
    /\ args.language = "fr"
    /\ config.value.map["workflow_name"] = PyStr("Basic Workflow")

(* C7: every result of execute carries either a document or an error
   message, never both and never neither; a result that is an error shows
   no document, hence no node or edge assembled before the failure. *)
C7_DocumentXorError ==
    Done => /\ HasDocument # HasError
            /\ HasError => result.output = PyNone
            /\ HasDocument => result.error = PyNone

C7_Witness ==
    /\ Done /\ HasError /\ ~HasDocument
    /\ ~Explicit /\ reply.kind = "reply"
    /\ Resolved.variables = PyList(<<NamelessVar>>)

\* the literal defaults of the config.get calls of execute
GetDefault ==
    [workflow_name |-> PyStr("Generated Workflow"),
     description |-> PyStr(""),
     node_types |-> StrList(<<"llm", "answer">>),
     variables |-> PyList(<<>>)]

\* the value a field has when the explicit parameters only fill in for the
\* fields the configuration lacks
ConfigFirst(k) ==
    IF k \in DOMAIN config.value.map THEN config.value.map[k]
    ELSE PyOr(args[k], GetDefault[k])

\* the built-in defaults of execute for parameters that are None
BuiltIn ==
    [workflow_name |-> PyStr("Default Workflow"),
     node_types |-> StrList(<<"llm", "answer">>),
     variables |-> PyList(<<>>)]

\* as ConfigFirst, a null workflow_name, node_types or variables of the
\* configuration giving the built-in default
ConfigFirstNonNull(k) ==
    IF k \in DOMAIN BuiltIn /\ ConfigFirst(k) = PyNone THEN BuiltIn[k] ELSE ConfigFirst(k)

\* the document in result is the one built from these four values
BuiltFrom(workflow_name, description, node_types, variables) ==
    /\ result.output.name = workflow_name
    /\ result.output.description = description
    /\ Returned(result.output.graph)
          = _generate_workflow_graph(node_types, variables, args.language)
    /\ result.output.features = _generate_features(node_types, args.language)

(* C8 as stated: with user_input present and a configuration returned, each
   of workflow_name, description, node_types and variables of the document
   is the configuration's value whenever the configuration contains the
   field, and the explicit parameter only when it lacks the field. *)
C8_ConfigValueAlwaysUsed ==
    (Done /\ ~Explicit /\ ~config.raised /\ HasDocument)
    => BuiltFrom(ConfigFirst("workflow_name"), ConfigFirst("description"),
                 ConfigFirst("node_types"), ConfigFirst("variables"))

(* C8 as amended: the document is built from the configuration's value
   whenever the configuration contains the field with a value other than
   null, and from the explicit parameter only when the configuration lacks
   the field; a workflow_name, node_types or variables that the
   configuration gives as null is replaced by the built-in default
   ("Default Workflow", ["llm", "answer"], []) and not by the explicit
   parameter; a null description stays null. *)
C8_ConfigFirstNullDefaults ==
    (Done /\ ~Explicit /\ ~config.raised /\ HasDocument)
    => BuiltFrom(ConfigFirstNonNull("workflow_name"), ConfigFirstNonNull("description"),
                 ConfigFirstNonNull("node_types"), ConfigFirstNonNull("variables"))

C8_Witness ==
    /\ Done /\ ~Explicit /\ ~config.raised /\ HasDocument
    /\ DOMAIN config.value.map = {"workflow_name", "node_types"}
    /\ config.value.map["workflow_name"] = PyStr("Doc QA")
    /\ config.value.map["node_types"] = PyNone
    /\ args.workflow_name = PyStr("W")
    /\ args.node_types = StrList(<<"code">>)
    /\ args.variables = PyList(<<OptionalVar>>)
    /\ result.output.name = PyStr("Doc QA")
    /\ Len(result.output.graph.nodes) = 4
    /\ Len(result.output.graph.nodes[1].data.variables) = 1

(* C9: the two input paths converge: when the analyzer returns a
   configuration C holding all four fields, the call with user_input returns
   what an explicit call (no user_input) passing C's workflow_name,
   description, node_types and variables returns, in the same language. *)
C9_PathsConverge ==
    (Done /\ ~Explicit /\ ~config.raised /\ DOMAIN config.value.map = FieldNames)
    => result = ExecuteExplicit(
                   [user_input |-> PyNone,
                    workflow_name |-> config.value.map["workflow_name"],
                    description |-> config.value.map["description"],
                    node_types |-> config.value.map["node_types"],
                    variables |-> config.value.map["variables"],
                    language |-> args.language])

C9_Witness ==
    /\ Done /\ ~Explicit /\ ~config.raised /\ HasDocument
    /\ DOMAIN config.value.map = FieldNames
    /\ reply.kind = "reply" /\ reply.content.t = "str" /\ ~Unusable(reply.content.s)
    /\ args.workflow_name = PyStr("W")
    /\ args.node_types = StrList(<<"code">>)
    /\ args.variables = PyList(<<OptionalVar>>)
    /\ result.output.name = PyStr("Doc QA")
    /\ config.value.map["variables"] = PyList(<<GoodVar, OptionalVar>>)

(* C10: features.retriever_resource is {enabled: true} exactly when
   "knowledge-retrieval" occurs in node_types, and the empty object
   otherwise, for every language and whatever the other kinds are. *)
C10_RetrieverResource ==
    (Done /\ HasDocument)
    => LET requested == \E j \in 1..Len(Resolved.node_types.items) :
                           Resolved.node_types.items[j].s = "knowledge-retrieval"
           nodes == result.output.graph.nodes
       IN  /\ result.output.features.retriever_resource =
                 (IF requested THEN PyDict([enabled |-> TRUE]) ELSE PyDict(<<>>))
           /\ requested <=> \E j \in 1..Len(nodes) : nodes[j].data.type = "knowledge-retrieval"

C10_Witness ==
    /\ Done /\ HasDocument
    /\ Resolved.node_types = StrList(<<"if-else", "knowledge-retrieval">>)
    /\ args.language = "ja"
    /\ result.output.features.retriever_resource = PyDict([enabled |-> TRUE])

----------------------------------------------------------------------------
(* Vocabulary of the concurrent runs *)

TaskDone(t) == tasks[t].pc = "done"
TaskExplicit(t) == ~Truthy(tasks[t].args.user_input)
\* what the call of coroutine t returns when it is the only call made
Alone(t) ==
    IF TaskExplicit(t) THEN ExecuteExplicit(tasks[t].args)
    ELSE ExecuteWithInput(tasks[t].args, tasks[t].reply)

----------------------------------------------------------------------------
\* a document with every data.title and the two localised feature texts
\* blanked out
Untitled(doc) ==
    [doc EXCEPT
        !.graph.nodes = [j \in 1..Len(doc.graph.nodes) |->
                            [doc.graph.nodes[j] EXCEPT !.data.title = ""]],
        !.features.opening_statement = "",
        !.features.suggested_questions = <<>>]

\* what the same explicit call returns when made in the other language
InLanguage(language) == ExecuteExplicit([args EXCEPT !.language = language])

(* C12: for fixed node_types and variables the documents generated for
   "en" and for "ja" differ at most in the data.title of their nodes and in
   features.opening_statement and features.suggested_questions: name,
   description, node ids, node order, data.type, every other payload field,
   the edges and the other feature fields are the same. *)
C12_LanguageOnlyTitles ==
    (Done /\ Explicit /\ HasDocument /\ args.language = "en")
    => LET twin == InLanguage("ja") IN
       /\ twin.error = PyNone
       /\ twin.output # PyNone
       /\ Untitled(twin.output) = Untitled(result.output)

\* an "en" document with declared variables whose "ja" twin has other titles
C12_Witness ==
    /\ Done /\ Explicit /\ HasDocument /\ args.language = "en"
    /\ args.node_types = StrList(<<"knowledge-retrieval", "llm">>)
    /\ args.variables = PyList(<<OptionalVar>>)
    /\ InLanguage("ja").output # result.output
    /\ InLanguage("ja").output.graph.nodes[4].data.title = "ja:shuuryou"
    /\ result.output.graph.nodes[4].data.title = "END"
    /\ Untitled(InLanguage("ja").output) = Untitled(result.output)

----------------------------------------------------------------------------
\* the ids of the nodes of the document, in order
Ids == [j \in 1..Len(result.output.graph.nodes) |-> result.output.graph.nodes[j].id]

\* the pairs the edges of the document join, in order
Joins ==
    [j \in 1..Len(result.output.graph.edges) |->
        <<result.output.graph.edges[j].source, result.output.graph.edges[j].target>>]

(* C14 as stated: when node_types is absent and no user_input is given,
   generation does not fail and the graph is the two-node chain: nodes
   [start, end] and the single edge from start to end. *)
C14_AbsentGivesStartEnd ==
    (Done /\ Explicit /\ args.node_types = PyNone /\ WellFormed(Resolved.variables))
    => /\ HasDocument /\ ~HasError
       /\ Ids = <<"start", "end">>
       /\ Joins = << <<"start", "end">> >>

(* C14 as amended: when node_types is absent and no user_input is given
   (and every declared variable has a name and a type), generation does not
   fail and the graph is the one of the default node_types ["llm",
   "answer"]: nodes [start, llm_0, answer_1, end] chained by three edges;
   the two-node chain, nodes [start, end] and the single edge from start to
   end, is what node_types given as the empty list yields. *)
C14_AbsentGivesLlmAnswer ==
    (Done /\ Explicit /\ WellFormed(Resolved.variables))
    => /\ args.node_types = PyNone
            => /\ HasDocument /\ ~HasError
               /\ Ids = <<"start", "llm_0", "answer_1", "end">>
               /\ Joins = << <<"start", "llm_0">>, <<"llm_0", "answer_1">>,
                             <<"answer_1", "end">> >>
       /\ args.node_types = StrList(<<>>)
            => /\ HasDocument /\ ~HasError
               /\ Ids = <<"start", "end">>
               /\ Joins = << <<"start", "end">> >>

\* a call that passes variables and a name but no node_types
C14_Witness ==
    /\ Done /\ Explicit /\ HasDocument
    /\ args.node_types = PyNone
    /\ args.variables = PyList(<<GoodVar>>)
    /\ args.user_input = PyNone
    /\ Ids = <<"start", "llm_0", "answer_1", "end">>
    /\ result.output.graph.nodes[2].data.type = "llm"

----------------------------------------------------------------------------
(* C15: the variable list of the start node has one entry per declared
   variable, in the declared order, with the variable's name and type, and
   every entry has required = true and default = "" whether the declaration
   says required true, false or nothing; every node other than start, and
   every edge, is what it is when no variable is declared. *)
C15_StartCarriesVariables ==
    (Done /\ HasDocument)
    => LET declared == Resolved.variables.items
           nodes == result.output.graph.nodes
           listed == nodes[1].data.variables
           bare == _generate_workflow_graph(Resolved.node_types, PyList(<<>>),
                                            args.language).value
       IN  /\ nodes[1].id = "start"
           /\ Len(listed) = Len(declared)
           /\ \A i \in 1..Len(declared) :
                 /\ DOMAIN listed[i] = {"variable", "type", "required", "default"}
                 /\ listed[i].variable = declared[i].map["name"]
                 /\ listed[i].type = declared[i].map["type"]
                 /\ listed[i].required = TRUE
                 /\ listed[i].default = ""
           /\ [result.output.graph EXCEPT !.nodes = Tail(@)] = [bare EXCEPT !.nodes = Tail(@)]

\* two declared variables, the second declared required = false
C15_Witness ==
    /\ Done /\ HasDocument
    /\ Resolved.variables = PyList(<<GoodVar, OptionalVar>>)
    /\ OptionalVar.map["required"] = PyBool(FALSE)
    /\ Len(result.output.graph.nodes[1].data.variables) = 2
    /\ result.output.graph.nodes[1].data.variables[2].variable = OptionalVar.map["name"]
    /\ result.output.graph.nodes[1].data.variables[2].required = TRUE
    /\ Len(result.output.graph.nodes) > 2

----------------------------------------------------------------------------
\* the kinds _create_node has a builder for
Builders ==
    {"llm", "knowledge-retrieval", "http-request", "code", "template-transform",
     "answer", "if-else", "iteration"}

\* the positions of node_types that hold a kind without a builder
Fallbacks(k) == {i \in 1..Len(k) : k[i] \notin Builders \cup {"start"}}

\* the call did not fail before the graph was built
Analysed == Explicit \/ (reply.kind = "reply" /\ ~config.raised)

(* C16: for every kind tag without a builder, in every language, the node
   factory returns a node whose data holds exactly title and type, type
   being the requested tag; a call whose node_types holds such a tag returns
   a document (its variables having names and types). *)
C16_UnknownKindFallsBack ==
    (Done /\ Analysed /\ Resolved.node_types.t = "list"
       /\ WellFormed(Resolved.variables)
       /\ Fallbacks(Tags(Resolved.node_types)) # {})
    => /\ HasDocument /\ ~HasError
       /\ \A i \in Fallbacks(Tags(Resolved.node_types)) :
             LET k == Tags(Resolved.node_types)[i] IN
             \E j \in 1..Len(result.output.graph.nodes) :
                LET node == result.output.graph.nodes[j] IN
                /\ node.id = k \o "_" \o ToString(i - 1)
                /\ DOMAIN node = {"id", "position", "data"}
                /\ DOMAIN node.data = {"title", "type"}
                /\ node.data.type = k
                /\ node.data.title = Upper(k)

\* a kind outside the schema, requested in a language without title table
C16_Witness ==
    /\ Done /\ Explicit /\ HasDocument
    /\ args.node_types = StrList(<<"llm", "custom">>)
    /\ args.language = "fr"
    /\ result.output.graph.nodes[3].id = "custom_1"
    /\ result.output.graph.nodes[3].data = [title |-> "CUSTOM", type |-> "custom"]

----------------------------------------------------------------------------
(* C17: features.opening_statement and features.suggested_questions are
   the fixed Japanese texts when language is "ja" and the fixed English
   texts for every other language tag, whatever node_types holds;
   suggested_questions_after_answer is empty and speech_to_text,
   text_to_speech, file_upload and sensitive_word_avoidance are false. *)
C17_FixedFeatureTexts ==
    (Done /\ HasDocument)
    => LET f == result.output.features IN
       /\ args.language = "ja"
            => /\ f.opening_statement = "ja:konnichiwa, dono you ni otetsudai dekimasu ka?"
               /\ f.suggested_questions = <<"ja:shitsumon-rei 1", "ja:shitsumon-rei 2">>
       /\ args.language # "ja"
            => /\ f.opening_statement = "Hello, how can I help you today?"
               /\ f.suggested_questions = <<"Example question 1", "Example question 2">>
       /\ f.suggested_questions_after_answer = <<>>
       /\ f.speech_to_text = FALSE
       /\ f.text_to_speech = FALSE
       /\ f.file_upload = FALSE
       /\ f.sensitive_word_avoidance = FALSE

\* a language tag that is neither "en" nor "ja", with retrieval requested
C17_Witness ==
    /\ Done /\ HasDocument
    /\ args.language = "fr"
    /\ Resolved.node_types = StrList(<<"knowledge-retrieval", "llm">>)
    /\ result.output.features.opening_statement = "Hello, how can I help you today?"
    /\ result.output.graph.nodes[1].data.title = "ja:kaishi"

----------------------------------------------------------------------------
\* the positions of node_types that are not the literal "start"
Emitted(k) == {i \in 1..Len(k) : k[i] # "start"}

\* 1 when the auto end node is due, 0 when an "end" entry is listed
AutoEnd(k) == IF \E i \in 1..Len(k) : k[i] = "end" THEN 0 ELSE 1

(* C18: every document has exactly one node of type "start": it has id
   "start" and is the first node, however many literal "start" entries
   node_types holds and wherever they stand; a literal "start" entry adds
   no node and no edge. *)
C18_OneStartNode ==
    (Done /\ HasDocument)
    => LET k == Tags(Resolved.node_types)
           nodes == result.output.graph.nodes
           edges == result.output.graph.edges
       IN  /\ nodes[1].id = "start"
           /\ nodes[1].data.type = "start"
           /\ \A j \in 2..Len(nodes) : nodes[j].data.type # "start" /\ nodes[j].id # "start"
           /\ Len(nodes) = 1 + Cardinality(Emitted(k)) + AutoEnd(k)
           /\ Len(edges) = Cardinality(Emitted(k)) + AutoEnd(k)

\* "start" listed twice: the document is the one of the empty list
C18_Witness ==
    /\ Done /\ Explicit /\ HasDocument
    /\ args.node_types = StrList(<<"start", "start">>)
    /\ Ids = <<"start", "end">>
    /\ Joins = << <<"start", "end">> >>

----------------------------------------------------------------------------
\* the ids due to the entries of k from position i on: kind and zero-based
\* position in the whole sequence, nothing for a literal "start"
RECURSIVE IdsFrom(_, _)
IdsFrom(k, i) ==
    IF i > Len(k) THEN <<>>
    ELSE (IF k[i] = "start" THEN <<>> ELSE <<k[i] \o "_" \o ToString(i - 1)>>)
            \o IdsFrom(k, i + 1)

(* C19: each entry of node_types other than "start", at position i of the
   whole sequence (skipped "start" entries counted), yields exactly one
   node, with id kind_i, and these nodes follow the start node in the order
   of their entries. *)
C19_IdsByPosition ==
    (Done /\ HasDocument)
    => LET k == Tags(Resolved.node_types)
           n == Cardinality(Emitted(k))
           rest == Tail(Ids)
       IN  /\ Len(rest) >= n
           /\ SubSeq(rest, 1, n) = IdsFrom(k, 1)
           /\ Cardinality({rest[j] : j \in 1..n}) = n
           /\ \A j \in n + 1..Len(rest) : rest[j] = "end"

\* a kind after a skipped "start" keeps its position in its id
C19_Witness ==
    /\ Done /\ Explicit /\ HasDocument
    /\ args.node_types = StrList(<<"start", "code">>)
    /\ Ids = <<"start", "code_1", "end">>

----------------------------------------------------------------------------
(* C20: the document has a node with id "end" exactly when node_types
   lists no "end" entry.  A listed "end" at position i is emitted in place
   as node end_i with the fallback payload {title, type}; it has an outgoing
   edge exactly when an entry other than "start" follows it; and when "end"
   is listed the node of the last entry other than "start" is the last node
   of the document. *)
C20_EndByMembership ==
    (Done /\ HasDocument)
    => LET k == Tags(Resolved.node_types)
           nodes == result.output.graph.nodes
           ends == {i \in 1..Len(k) : k[i] = "end"}
       IN  /\ (\E j \in 1..Len(Ids) : Ids[j] = "end") <=> ends = {}
           /\ \A i \in ends :
                 LET j == 1 + Cardinality({h \in Emitted(k) : h <= i})
                     id == "end_" \o ToString(i - 1)
                 IN  /\ j <= Len(nodes)
                     /\ nodes[j].id = id
                     /\ DOMAIN nodes[j].data = {"title", "type"}
                     /\ nodes[j].data.type = "end"
                     /\ (\E e \in 1..Len(Joins) : Joins[e][1] = id)
                           <=> (\E h \in Emitted(k) : h > i)
           /\ ends # {} => Len(nodes) = 1 + Cardinality(Emitted(k))

\* "end" listed first: emitted as end_0 with an edge to the node after it,
\* and nothing appended after the last entry
C20_Witness ==
    /\ Done /\ Explicit /\ HasDocument
    /\ args.node_types = StrList(<<"end", "llm">>)
    /\ Ids = <<"start", "end_0", "llm_1">>
    /\ Joins = << <<"start", "end_0">>, <<"end_0", "llm_1">> >>
    /\ DOMAIN result.output.graph.nodes[2].data = {"title", "type"}

----------------------------------------------------------------------------
(* C21: in every document the edges are one fewer than the nodes, the j-th
   edge runs from the j-th node to the (j+1)-th and has the id
   source-target; hence every node, "if-else" and "iteration" included, has
   at most one inbound and at most one outbound edge. *)
C21_EdgesJoinConsecutiveNodes ==
    (Done /\ HasDocument)
    => LET nodes == result.output.graph.nodes
           edges == result.output.graph.edges
       IN  /\ Len(edges) = Len(nodes) - 1
           /\ \A j \in 1..Len(edges) :
                 /\ edges[j].source = nodes[j].id
                 /\ edges[j].target = nodes[j + 1].id
                 /\ edges[j].id = edges[j].source \o "-" \o edges[j].target
           /\ \A j \in 1..Len(nodes) :
                 /\ Cardinality({e \in 1..Len(edges) : edges[e].target = nodes[j].id}) <= 1
                 /\ Cardinality({e \in 1..Len(edges) : edges[e].source = nodes[j].id}) <= 1

\* a branching kind and a looping kind, each wired with one edge in, one out
C21_Witness ==
    /\ Done /\ Explicit /\ HasDocument
    /\ args.node_types = StrList(<<"if-else", "iteration">>)
    /\ Joins = << <<"start", "if-else_0">>, <<"if-else_0", "iteration_1">>,
                  <<"iteration_1", "end">> >>
    /\ result.output.graph.edges[2].id = "if-else_0-iteration_1"

----------------------------------------------------------------------------
\* the positions of the nodes of kind "llm" in the document
LlmNodes == {j \in 1..Len(result.output.graph.nodes) :
                result.output.graph.nodes[j].data.type = "llm"}

(* C22: when a document has the auto end node and at least one node of kind
   "llm", the node named by the value_selector of the end node's output
   "result" is the last "llm" node of the chain, a node of the document. *)
C22_EndSurfacesLastLlm ==
    (Done /\ HasDocument /\ LlmNodes # {}
       /\ result.output.graph.nodes[Len(result.output.graph.nodes)].id = "end")
    => LET nodes == result.output.graph.nodes
           last == CHOOSE j \in LlmNodes : \A h \in LlmNodes : h <= j
           outputs == nodes[Len(nodes)].data.outputs
       IN  /\ Len(outputs) = 1
           /\ outputs[1].variable = "result"
           /\ outputs[1].value_selector = <<nodes[last].id, "text">>

----------------------------------------------------------------------------
\* the text without the brace-free prose it starts and ends with
RECURSIVE JsonPart(_)
JsonPart(text) ==
    IF text = <<>> THEN text
    ELSE IF text[1] = Prose THEN JsonPart(Tail(text))
    ELSE IF text[Len(text)] = Prose THEN JsonPart(SubSeq(text, 1, Len(text) - 1))
    ELSE text

\* the text is one valid JSON object with at most brace-free prose around it
SingleObject(text) ==
    LET part == JsonPart(text) IN
    /\ part # <<>>
    /\ part[1] = LBrace
    /\ ~json_loads(part).raised

(* C23: when the reply is one valid JSON object, with or without prose free
   of '{' and '}' before and after it, analyze returns exactly that object:
   the value the text between the prose decodes to, whose serialisation is
   that text again, with no field added, removed or checked. *)
C23_SingleObjectReturned ==
    (Done /\ reply.kind = "reply" /\ reply.content.t = "str"
       /\ SingleObject(reply.content.s))
    => LET part == JsonPart(reply.content.s) IN
       /\ ~config.raised
       /\ config.value = json_loads(part).value
       /\ Dumps(config.value) = part

\* an object of two fields, one of them nested, between two runs of prose
C23_Witness ==
    /\ Done /\ reply.kind = "reply" /\ reply.content.t = "str"
    /\ reply.content.s = <<Prose>> \o Dumps(NestedConfig) \o <<Prose>>
    /\ SingleObject(reply.content.s)
    /\ config = Returned(NestedConfig)
    /\ DOMAIN config.value.map = {"node_types", "variables"}

----------------------------------------------------------------------------
\* the step ends an analyze call whose client call or parse did not succeed
NotSucceeded ==
    /\ pc = "awaiting" /\ pc' = "done"
    /\ \/ reply'.kind = "raise"
       \/ reply'.content.t # "str"
       \/ Unusable(reply'.content.s)

(* C24: analyze has no retry loop: a call goes from idle through the
   prompt and the awaited client call to the parse and to its end without
   going back, the client is called at most once, and every outcome of the
   client call or of the parse that is no success ends the call with the
   default configuration of the requested language. *)
C24_NoRetryDefaultBranch ==
    [][/\ pc = "idle" => pc' \in {"awaiting", "done"}
       /\ pc = "awaiting" => pc' = "done"
       /\ pc = "done" => pc' = "idle"
       /\ llm_calls' <= 1
       /\ NotSucceeded => (~config'.raised /\ IsDefaultConfig(config'.value, args.language))]_vars

----------------------------------------------------------------------------
(* C25: every execute call returns: a call that waits for the model client
   is followed by its return with a result once the client has replied or
   failed, and a call without user_input is at its return with a result as
   soon as it is made. *)
C25_EveryCallReturns ==
    /\ \A t \in Tasks :
          (tasks[t].pc = "awaiting") ~> (tasks[t].pc = "done" /\ tasks[t].result # NoResult)
    /\ [](\A t \in Tasks : TaskExplicit(t) => tasks[t].pc \in {"idle", "done"})
    /\ [](\A t \in Tasks : TaskDone(t) => tasks[t].result # NoResult)

\* every coroutine back with a result, calls with and without user_input,
\* after a reply and after a failure of the client
C25_Witness ==
    /\ \A t \in Tasks : TaskDone(t) /\ tasks[t].result # NoResult
    /\ \E t \in Tasks : TaskExplicit(t) /\ Len(tasks[t].result.output.graph.nodes) = 4
    /\ \E t \in Tasks : tasks[t].reply.kind = "reply" /\ tasks[t].result.output # PyNone
    /\ \E t \in Tasks : tasks[t].reply.kind = "raise" /\ tasks[t].result.error # PyNone

----------------------------------------------------------------------------
(* C26: no call writes a field of the generator or of its IntentAnalyzer:
   whatever calls a reused instance has served, in whatever order, with a
   document, a fallback or an error as their result, its fields are those
   it had after construction. *)
C26_InstanceUnchanged == generator = Constructed

\* calls served with a document from the reply, with the default
\* configuration and with an error, and the instance as constructed
C26_Witness ==
    /\ generator = Constructed
    /\ \A t \in Tasks : TaskDone(t) /\ ~TaskExplicit(t)
    /\ \E t \in Tasks : tasks[t].reply = ClientReplies(PyStr(Dumps(NestedConfig)))
                          /\ tasks[t].result.output # PyNone
    /\ \E t \in Tasks : tasks[t].reply = ClientReplies(PyStr(<<Prose>>))
                          /\ tasks[t].result.output # PyNone
    /\ \E t \in Tasks : tasks[t].reply.kind = "raise" /\ tasks[t].result.error # PyNone

----------------------------------------------------------------------------
(* C27: execute hands every failure to its caller as an error result, not
   as an exception: a failure of the analysis of user_input (a client error
   included) gives "Failed to analyze user input: " and the exception text,
   a failure while the graph is built (a variable without name, a
   node_types that cannot be iterated) gives "Failed to generate workflow
   DSL: " and the exception text, and no document comes with either. *)
C27_FailuresBecomeErrorResults ==
    Done
    => /\ DOMAIN result = {"output", "error"}
       /\ reply.kind = "raise"
            => result = [output |-> PyNone,
                         error |-> PyStr("Failed to analyze user input: " \o reply.exc)]
       /\ (Analysed /\ ~WellFormed(Resolved.variables))
            => result = [output |-> PyNone,
                         error |-> PyStr("Failed to generate workflow DSL: 'name'")]
       /\ (Analysed /\ WellFormed(Resolved.variables) /\ Resolved.node_types.t # "list")
            => result = [output |-> PyNone,
                         error |-> PyStr("Failed to generate workflow DSL: '"
                                           \o Resolved.node_types.t
                                           \o "' object is not iterable")]

\* a client error met while user_input is analysed, returned as a result
C27_Witness ==
    /\ Done /\ ~Explicit
    /\ reply = ClientRaises("HTTP 500")
    /\ result.output = PyNone
    /\ result.error = PyStr("Failed to analyze user input: HTTP 500")

----------------------------------------------------------------------------
(* C28: a call whose user_input is the empty string is served like a call
   without user_input: neither the analyzer nor the model client is called,
   and the document is built from the explicit parameters alone, with name
   "Default Workflow", node_types ["llm", "answer"] and no variables for
   those not supplied. *)
C28_EmptyInputIsNoInput ==
    (Done /\ args.user_input = PyStr(""))
    => /\ llm_calls = 0
       /\ reply = NoReply
       /\ config = NoConfig
       /\ HasDocument
            => BuiltFrom(IF args.workflow_name = PyNone THEN PyStr("Default Workflow")
                         ELSE args.workflow_name,
                         args.description,
                         IF args.node_types = PyNone THEN StrList(<<"llm", "answer">>)
                         ELSE args.node_types,
                         IF args.variables = PyNone THEN PyList(<<>>) ELSE args.variables)
       /\ HasDocument \/ args.node_types # PyNone \/ args.variables # PyNone

\* user_input = "" and nothing else supplied: the document of the defaults
C28_Witness ==
    /\ Done /\ HasDocument
    /\ args.user_input = PyStr("")
    /\ args.workflow_name = PyNone /\ args.node_types = PyNone /\ args.variables = PyNone
    /\ llm_calls = 0
    /\ result.output.name = PyStr("Default Workflow")
    /\ Ids = <<"start", "llm_0", "answer_1", "end">>
    /\ result.output.graph.nodes[1].data.variables = <<>>

----------------------------------------------------------------------------
(* C29: within a document the localisation agrees, for every language tag:
   the start node and the auto end node have their Japanese titles exactly
   when features.opening_statement is the Japanese greeting, so that a tag
   that is neither "en" nor "ja" gives the titles and the feature text of
   "en". *)
C29_LocalisationAgrees ==
    (Done /\ HasDocument)
    => LET nodes == result.output.graph.nodes
           japanese == result.output.features.opening_statement
                          = "ja:konnichiwa, dono you ni otetsudai dekimasu ka?"
       IN  /\ (nodes[1].data.title = "ja:kaishi") <=> japanese
           /\ nodes[1].data.title \in {"START", "ja:kaishi"}
           /\ nodes[Len(nodes)].id = "end"
                 => /\ (nodes[Len(nodes)].data.title = "ja:shuuryou") <=> japanese
                    /\ nodes[Len(nodes)].data.title \in {"END", "ja:shuuryou"}

----------------------------------------------------------------------------
\* the JSON value that starts at the first '{' of the text, when there is one
FirstObject(text) ==
    IF Find(text, LBrace) < 0 THEN ParseFail
    ELSE ParseValue(text, Find(text, LBrace) + 1)

\* a valid object at the first '{', and a '}' somewhere after its end
ObjectThenBrace(text) ==
    LET first == FirstObject(text) IN
    /\ first.ok
    /\ \E j \in first.pos..Len(text) : text[j] = RBrace

(* C30: the span analyze decodes runs from the first '{' to the last '}' of
   the whole reply: when a valid object is followed by a second object, or
   by any later text that holds a '}', analyze returns the default
   configuration of the requested language and not the first object. *)
C30_SpanToLastBrace ==
    (Done /\ reply.kind = "reply" /\ reply.content.t = "str"
       /\ ObjectThenBrace(reply.content.s))
    => /\ ~config.raised
       /\ IsDefaultConfig(config.value, args.language)
       /\ config.value # FirstObject(reply.content.s).val

\* two objects one after the other, prose between them
C30_Witness ==
    /\ Done /\ reply.kind = "reply" /\ reply.content.t = "str"
    /\ reply.content.s = Dumps(OtherConfig) \o <<Prose>> \o Dumps(NestedConfig)
    /\ FirstObject(reply.content.s).val = OtherConfig
    /\ args.language = "ja"
    /\ config = Returned(_get_default_config("ja"))

====
